---- MODULE Spec2Model ----
(***************************************************************************)
(* Model of flask_request_id_header.middleware.RequestID: the WSGI         *)
(* middleware that reconciles the X-Request-ID header of every request.    *)
(*                                                                         *)
(* A Python str is a sequence of one-character strings; an Optional[str]   *)
(* is the empty tuple (None) or a one-element tuple holding the str.       *)
(***************************************************************************)
EXTENDS Naturals, Sequences, FiniteSets, TLC

----------------------------------------------------------------------------
(* Optional values *)

None == <<>>

Some(s) == <<s>>

Val(o) == o[1]

----------------------------------------------------------------------------
(* Python str operations used by the middleware and by uuid.UUID *)

Rep(c, n) == [i \in 1..n |-> c]

\* sub in s
Contains(sub, s) ==
    \E i \in 1..(Len(s) + 1) :
        /\ i + Len(sub) - 1 <= Len(s)
        /\ SubSeq(s, i, i + Len(sub) - 1) = sub

\* s.startswith(sub)
StartsWith(sub, s) ==
    /\ Len(sub) <= Len(s)
    /\ SubSeq(s, 1, Len(sub)) = sub

\* s.replace(pat, ''): every non-overlapping occurrence, left to right
RECURSIVE RemoveAll(_, _)
RemoveAll(s, pat) ==
    IF Len(s) < Len(pat) \/ Len(s) = 0
    THEN s
    ELSE IF StartsWith(pat, s)
         THEN RemoveAll(SubSeq(s, Len(pat) + 1, Len(s)), pat)
         ELSE <<Head(s)>> \o RemoveAll(Tail(s), pat)

RECURSIVE LStrip(_, _)
LStrip(s, cs) ==
    IF s # <<>> /\ Head(s) \in cs THEN LStrip(Tail(s), cs) ELSE s

RECURSIVE RStrip(_, _)
RStrip(s, cs) ==
    IF s # <<>> /\ s[Len(s)] \in cs
    THEN RStrip(SubSeq(s, 1, Len(s) - 1), cs)
    ELSE s

\* s.strip(cs)
Strip(s, cs) == RStrip(LStrip(s, cs), cs)

\* s.split(','): purely syntactic, ''.split(',') is ['']
RECURSIVE Split(_)
Split(s) ==
    IF \A i \in 1..Len(s) : s[i] # ","
    THEN <<s>>
    ELSE LET i == CHOOSE k \in 1..Len(s) :
                      /\ s[k] = ","
                      /\ \A j \in 1..(k - 1) : s[j] # ","
         IN  <<SubSeq(s, 1, i - 1)>> \o Split(SubSeq(s, i + 1, Len(s)))

LowerHex == {"0", "1", "2", "3", "4", "5", "6", "7", "8", "9",
             "a", "b", "c", "d", "e", "f"}

HexDigits == LowerHex \cup {"A", "B", "C", "D", "E", "F"}

Whitespace == {" "}

\* int(s, 16) does not raise ValueError: surrounding whitespace, a sign, a
\* 0x prefix and single underscores between digits are accepted
IntBase16Parses(s) ==
    LET t == Strip(s, Whitespace)
        u == IF t # <<>> /\ t[1] \in {"+", "-"} THEN Tail(t) ELSE t
        hasPfx == Len(u) >= 2 /\ u[1] = "0" /\ u[2] \in {"x", "X"}
        v0 == IF hasPfx THEN SubSeq(u, 3, Len(u)) ELSE u
        v == IF hasPfx /\ v0 # <<>> /\ v0[1] = "_" THEN Tail(v0) ELSE v0
    IN  /\ v # <<>>
        /\ v[1] \in HexDigits
        /\ v[Len(v)] \in HexDigits
        /\ \A i \in 1..Len(v) : v[i] \in HexDigits \cup {"_"}
        /\ \A i \in 1..(Len(v) - 1) : ~(v[i] = "_" /\ v[i + 1] = "_")

\* the 32 characters uuid.UUID(hex=...) keeps of its argument
UUIDHex(s) ==
    LET h1 == RemoveAll(RemoveAll(s, <<"u", "r", "n", ":">>),
                        <<"u", "u", "i", "d", ":">>)
    IN  RemoveAll(Strip(h1, {"{", "}"}), <<"-">>)

\* UUID(request_id, version=4) does not raise ValueError.  The version
\* argument overwrites the version and variant bits of the parsed number: it
\* is not compared with the version the string states.
UUIDConstructs(s) ==
    /\ Len(UUIDHex(s)) = 32
    /\ IntBase16Parses(UUIDHex(s))

----------------------------------------------------------------------------
(* RequestID: the pure part *)

\* a plausible slip: the prefix is matched at the start of the token only
PrefixMatchesAnchored(request_id, unique_request_id_value_prefix) ==
    /\ unique_request_id_value_prefix # None
    /\ StartsWith(Val(unique_request_id_value_prefix), request_id)

PrefixMatches(request_id, unique_request_id_value_prefix) ==
    /\ unique_request_id_value_prefix # None
    /\ Contains(Val(unique_request_id_value_prefix), request_id)

RequestIdUnique(request_id, unique_request_id_value_prefix) ==
    \/ PrefixMatches(request_id, unique_request_id_value_prefix)
    \/ UUIDConstructs(request_id)

UUID4(c, d) ==
    Rep(c, 8) \o <<"-">> \o Rep(c, 4) \o <<"-", "4">> \o Rep(c, 3)
        \o <<"-", d>> \o Rep(c, 3) \o <<"-">> \o Rep(c, 12)

\* a plausible slip: the generated identifier is not a UUID
GenerateCounterId == {<<"r", "e", "q", "1">>, <<"r", "e", "q", "2">>}

\* the values str(uuid4()) can take: canonical lower-case version-4 UUIDs
GenerateRequestId == {UUID4("0", "8"), UUID4("f", "b")}

\* _compute_request_id_header with the generator's draw g made explicit
ComputeRequestIdHeader(header_value, unique_prefix, g) ==
    IF header_value = None
    THEN g
    ELSE LET h == Val(header_value)
             header_values == Split(h)
         IN  IF \E i \in 1..Len(header_values) :
                    RequestIdUnique(header_values[i], unique_prefix)
             THEN h
             ELSE h \o <<",">> \o g

----------------------------------------------------------------------------
(* Inputs *)

\* app.config['REQUEST_ID_UNIQUE_VALUE_PREFIX'] of the sample application
TestPrefix == <<"T", "E", "S", "T", "-">>

\* the prefix configurations: None, the empty string, 'TEST-'
Prefixes == {None, Some(<<>>), Some(TestPrefix)}

NonUnique1 == <<"x", "-", "1">>

NonUnique2 == <<"x", "-", "2">>

Join(a, b) == a \o <<",">> \o b

\* a well-formed version-1 UUID
UUID1 ==
    Rep("a", 8) \o <<"-">> \o Rep("a", 4) \o <<"-", "1">> \o Rep("a", 3)
        \o <<"-", "8">> \o Rep("a", 3) \o <<"-">> \o Rep("a", 12)

\* inbound X-Request-ID headers: absent, or a comma-separated list
Headers ==
    { None,
      Some(<<>>),
      Some(NonUnique1),
      Some(Join(NonUnique1, NonUnique2)),
      Some(Join(NonUnique1, <<>>)),
      Some(TestPrefix),
      Some(Join(TestPrefix \o <<"X">>, NonUnique1)),
      Some(Join(NonUnique1, <<"a">> \o TestPrefix \o <<"1">>)),
      Some(UUID4("a", "8")),
      Some(Join(UUID4("a", "8"), UUID4("b", "9"))),
      Some(Join(NonUnique1, UUID4("a", "8"))),
      Some(UUID1),
      Some(Join(NonUnique1, UUID1)),
      Some(UUID4("A", "B")),
      Some(<<"{">> \o UUID4("a", "8") \o <<"}">>),
      Some(Rep("c", 32)) }

\* the concurrent runs use the configuration of the sample application
ConcurrentPrefixes == {Some(TestPrefix)}

\* the inbound headers of the concurrent runs
ConcurrentHeaders == {None, Some(NonUnique1), Some(TestPrefix \o <<"X">>)}

Statuses == {"204 NO CONTENT", "500 INTERNAL SERVER ERROR"}

ConcurrentStatuses == {"204 NO CONTENT"}

\* the response header lists the wrapped application builds
AppHeaderLists ==
    { <<>>,
      << <<"Content-Type", <<"t", "e", "x", "t">> >> >>,
      << <<"X-Request-ID", <<"a", "p", "p">> >> >> }

ConcurrentAppHeaderLists == { <<>> }

\* the headers of the error response the WSGI server writes by itself when
\* the application callable raises
ServerErrorHeaders == << <<"Content-Type", <<"t", "e", "x", "t">> >> >>

NumRequests == 2

MaxCalls == 2

MaxApply == 3

Requests == 1..NumRequests

----------------------------------------------------------------------------
(* State *)

VARIABLES
    prefix,             \* self._unique_request_id_value_prefix
    header_name,        \* self._header_name
    pc,                 \* where each request is in __call__ and below it
    inbound,            \* the X-Request-ID header each client sent
    environ,            \* environ['HTTP_X_REQUEST_ID'] of each request
    request_id_header,  \* the local of __call__ new_start_response closes over
    computeCount,       \* calls of _compute_request_id_header per request
    response_headers,   \* the list object the application passes
    nCalls,             \* start_response calls of the application so far
    serverCall,         \* the last call the server's start_response received
    response,           \* the headers of the response that was sent
    original,           \* re-application: the first input
    value,              \* re-application: the current value
    applied             \* re-application: applications so far

requestVars == <<pc, inbound, environ, request_id_header, computeCount,
                 response_headers, nCalls, serverCall, response>>

reapplyVars == <<original, value, applied>>

vars == <<prefix, header_name, requestVars, reapplyVars>>

InitRequests ==
    /\ header_name = "X-Request-ID"
    /\ pc = [r \in Requests |-> "idle"]
    /\ inbound = [r \in Requests |-> None]
    /\ environ = [r \in Requests |-> None]
    /\ request_id_header = [r \in Requests |-> None]
    /\ computeCount = [r \in Requests |-> 0]
    /\ response_headers = [r \in Requests |-> <<>>]
    /\ nCalls = [r \in Requests |-> 0]
    /\ serverCall = [r \in Requests |-> None]
    /\ response = [r \in Requests |-> None]

Init ==
    /\ prefix \in Prefixes
    /\ InitRequests
    /\ original = None
    /\ value = None
    /\ applied = 0

InitConcurrent ==
    /\ prefix \in ConcurrentPrefixes
    /\ InitRequests
    /\ original = None
    /\ value = None
    /\ applied = 0

InitReapply ==
    /\ prefix \in Prefixes
    /\ InitRequests
    /\ original \in Headers
    /\ value = original
    /\ applied = 0

----------------------------------------------------------------------------
(* RequestID.__call__ and the WSGI application it wraps *)

\* the server calls the middleware with the environ of a request
Receive(r, headers) ==
    /\ pc[r] = "idle"
    /\ \E h \in headers :
        /\ inbound' = [inbound EXCEPT ![r] = h]
        /\ environ' = [environ EXCEPT ![r] = h]
    /\ pc' = [pc EXCEPT ![r] = "received"]
    /\ UNCHANGED <<prefix, header_name, request_id_header, computeCount,
                   response_headers, nCalls, serverCall, response, reapplyVars>>

Compute(r) ==
    /\ pc[r] = "received"
    /\ \E g \in GenerateRequestId :
        request_id_header' = [request_id_header EXCEPT ![r] =
            Some(ComputeRequestIdHeader(environ[r], prefix, g))]
    /\ computeCount' = [computeCount EXCEPT ![r] = @ + 1]
    /\ pc' = [pc EXCEPT ![r] = "computed"]
    /\ UNCHANGED <<prefix, header_name, inbound, environ, response_headers,
                   nCalls, serverCall, response, reapplyVars>>

\* a plausible slip: the environ entry is not assigned
StoredValueStale(r) == environ[r]

StoredValue(r) == request_id_header[r]

Store(r) ==
    /\ pc[r] = "computed"
    /\ environ' = [environ EXCEPT ![r] = StoredValue(r)]
    /\ pc' = [pc EXCEPT ![r] = "stored"]
    /\ UNCHANGED <<prefix, header_name, inbound, request_id_header,
                   computeCount, response_headers, nCalls, serverCall,
                   response, reapplyVars>>

Invoke(r) ==
    /\ pc[r] = "stored"
    /\ pc' = [pc EXCEPT ![r] = "app"]
    /\ UNCHANGED <<prefix, header_name, inbound, environ, request_id_header,
                   computeCount, response_headers, nCalls, serverCall,
                   response, reapplyVars>>

\* the request whose value was computed last, were it kept on the instance
LatestComputed ==
    CHOOSE q \in Requests :
        /\ request_id_header[q] # None
        /\ \A p \in Requests : request_id_header[p] # None => p <= q

\* a plausible slip: the value is read from the instance, not the closure
HeaderToAppendShared(r) ==
    <<header_name, Val(request_id_header[LatestComputed])>>

HeaderToAppend(r) == <<header_name, Val(request_id_header[r])>>

\* new_start_response: appends to the list it is given, in place, and hands
\* the same list to the server's start_response
NewStartResponse(r, status, list, exc_info) ==
    LET appended == Append(list, HeaderToAppend(r))
    IN  /\ response_headers' = [response_headers EXCEPT ![r] = appended]
        /\ serverCall' = [serverCall EXCEPT ![r] =
               Some([status |-> status, headers |-> appended,
                     exc_info |-> exc_info])]

\* the application calls start_response with a list it has just built
AppStartResponse(r, statuses, lists) ==
    /\ pc[r] = "app"
    /\ nCalls[r] < MaxCalls
    /\ \E status \in statuses, list \in lists :
        NewStartResponse(r, status, list, nCalls[r] > 0)
    /\ nCalls' = [nCalls EXCEPT ![r] = @ + 1]
    /\ UNCHANGED <<prefix, header_name, pc, inbound, environ,
                   request_id_header, computeCount, response, reapplyVars>>

\* the application calls start_response again (with exc_info) and passes the
\* list object of its previous call
AppStartResponseSameList(r, statuses) ==
    /\ pc[r] = "app"
    /\ nCalls[r] >= 1
    /\ nCalls[r] < MaxCalls
    /\ \E status \in statuses :
        NewStartResponse(r, status, response_headers[r], TRUE)
    /\ nCalls' = [nCalls EXCEPT ![r] = @ + 1]
    /\ UNCHANGED <<prefix, header_name, pc, inbound, environ,
                   request_id_header, computeCount, response, reapplyVars>>

\* the application returns its body: the server sends the status and the
\* headers of the last start_response call
AppReturn(r) ==
    /\ pc[r] = "app"
    /\ nCalls[r] >= 1
    /\ response' = [response EXCEPT ![r] = Some(Val(serverCall[r]).headers)]
    /\ pc' = [pc EXCEPT ![r] = "returned"]
    /\ response_headers' = [response_headers EXCEPT ![r] = <<>>]
    /\ nCalls' = [nCalls EXCEPT ![r] = 0]
    /\ serverCall' = [serverCall EXCEPT ![r] = None]
    /\ UNCHANGED <<prefix, header_name, inbound, environ, request_id_header,
                   computeCount, reapplyVars>>

\* the application raises: __call__ has no handler, the exception reaches the
\* server, which writes its own error response through its own start_response
AppRaise(r) ==
    /\ pc[r] = "app"
    /\ response' = [response EXCEPT ![r] = Some(ServerErrorHeaders)]
    /\ pc' = [pc EXCEPT ![r] = "raised"]
    /\ response_headers' = [response_headers EXCEPT ![r] = <<>>]
    /\ nCalls' = [nCalls EXCEPT ![r] = 0]
    /\ serverCall' = [serverCall EXCEPT ![r] = None]
    /\ UNCHANGED <<prefix, header_name, inbound, environ, request_id_header,
                   computeCount, reapplyVars>>

\* one request at a time, every input
Next ==
    \/ Receive(1, Headers)
    \/ Compute(1)
    \/ Store(1)
    \/ Invoke(1)
    \/ AppStartResponse(1, Statuses, AppHeaderLists)
    \/ AppStartResponseSameList(1, Statuses)
    \/ AppReturn(1)
    \/ AppRaise(1)

Spec == Init /\ [][Next]_vars

\* the requests of several threads, interleaved
NextConcurrent ==
    \E r \in Requests :
        \/ Receive(r, ConcurrentHeaders)
        \/ Compute(r)
        \/ Store(r)
        \/ Invoke(r)
        \/ AppStartResponse(r, ConcurrentStatuses, ConcurrentAppHeaderLists)
        \/ AppStartResponseSameList(r, ConcurrentStatuses)
        \/ AppReturn(r)
        \/ AppRaise(r)

SpecConcurrent == InitConcurrent /\ [][NextConcurrent]_vars

----------------------------------------------------------------------------
(* _compute_request_id_header applied to its own output *)

Reapply ==
    /\ applied < MaxApply
    /\ \E g \in GenerateRequestId :
        value' = Some(ComputeRequestIdHeader(value, prefix, g))
    /\ applied' = applied + 1
    /\ UNCHANGED <<prefix, header_name, requestVars, original>>

NextReapply == Reapply

SpecReapply == InitReapply /\ [][NextReapply]_vars

----------------------------------------------------------------------------
(* Vocabulary of the properties *)

\* a version-4 UUID in canonical textual form: 8-4-4-4-12 lower-case
\* hexadecimal digits, version digit 4, variant digit 8, 9, a or b
IsCanonicalUUID4(t) ==
    /\ Len(t) = 36
    /\ \A i \in 1..36 :
        IF i \in {9, 14, 19, 24} THEN t[i] = "-" ELSE t[i] \in LowerHex
    /\ t[15] = "4"
    /\ t[20] \in {"8", "9", "a", "b"}

\* a version-4 UUID in any textual form uuid.UUID reads (upper case, braces,
\* urn:uuid:, no hyphens): 32 hexadecimal digits that state version 4 and
\* the RFC 4122 variant
IsValidUUID4(t) ==
    LET hex == UUIDHex(t)
    IN  /\ Len(hex) = 32
        /\ \A i \in 1..32 : hex[i] \in HexDigits
        /\ hex[13] = "4"
        /\ hex[17] \in {"8", "9", "a", "b", "A", "B"}

\* the token contains the configured prefix as a substring
ContainsConfiguredPrefix(t) ==
    /\ prefix # None
    /\ Contains(Val(prefix), t)

\* v is the header h followed by one comma and one canonical version-4 UUID
IsAugmented(h, v) ==
    /\ StartsWith(h \o <<",">>, v)
    /\ IsCanonicalUUID4(SubSeq(v, Len(h) + 2, Len(v)))

Computed(r) == request_id_header[r] # None

Occurrences(list, name) ==
    Cardinality({i \in 1..Len(list) : list[i][1] = name})

----------------------------------------------------------------------------
(* C1 *)

\* C1: the value _compute_request_id_header returns always contains at least
\* one token that contains the configured prefix or is a valid version-4
\* UUID.
C1_OutputHasUniqueToken ==
    \A r \in Requests :
        Computed(r) =>
            LET tokens == Split(Val(request_id_header[r]))
            IN  \E i \in 1..Len(tokens) :
                    \/ ContainsConfiguredPrefix(tokens[i])
                    \/ IsValidUUID4(tokens[i])

----------------------------------------------------------------------------
(* C2 *)

InboundHasUniqueToken(r) ==
    /\ inbound[r] # None
    /\ LET tokens == Split(Val(inbound[r]))
       IN  \E i \in 1..Len(tokens) :
               \/ ContainsConfiguredPrefix(tokens[i])
               \/ IsValidUUID4(tokens[i])

----------------------------------------------------------------------------
(* C3 *)

NoTokenClassifiedUnique(r) ==
    /\ inbound[r] # None
    /\ LET tokens == Split(Val(inbound[r]))
       IN  \A i \in 1..Len(tokens) : ~RequestIdUnique(tokens[i], prefix)

\* C3 without its last sentence: an absent header yields one generated token,
\* a header H none of whose tokens the uniqueness test accepts yields H, a
\* comma and one generated token.
C3_AppendsWhenNoneUnique ==
    \A r \in Requests :
        Computed(r) =>
            /\ inbound[r] = None =>
                   IsCanonicalUUID4(Val(request_id_header[r]))
            /\ NoTokenClassifiedUnique(r) =>
                   IsAugmented(Val(inbound[r]), Val(request_id_header[r]))

\* C3: an absent header, or one none of whose tokens the uniqueness test
\* accepts, gets exactly one generated version-4 UUID token; this includes the
\* empty-string header, which yields a comma and the generated token.
C3_AppendsExactlyOne ==
    /\ C3_AppendsWhenNoneUnique
    /\ \A r \in Requests :
        (Computed(r) /\ inbound[r] = Some(<<>>)) =>
            IsAugmented(<<>>, Val(request_id_header[r]))

----------------------------------------------------------------------------
(* C4 *)

\* C4: every response that is sent, whatever its status and also when the
\* wrapped application raised, carries X-Request-ID with the reconciled value
\* of its request.
C4_EveryResponseCarriesHeader ==
    \A r \in Requests :
        response[r] # None =>
            \E i \in 1..Len(Val(response[r])) :
                Val(response[r])[i] =
                    <<"X-Request-ID", Val(request_id_header[r])>>

----------------------------------------------------------------------------
(* C5 *)

\* C5, for the responses whose headers went through start_response: the
\* response holds exactly one X-Request-ID header, and its value is the
\* reconciled value, whatever calls the application made and whatever
\* headers it supplied.
C5_ExactlyOneOccurrence ==
    \A r \in Requests :
        pc[r] = "returned" =>
            /\ Occurrences(Val(response[r]), "X-Request-ID") = 1
            /\ \A i \in 1..Len(Val(response[r])) :
                Val(response[r])[i][1] = "X-Request-ID" =>
                    Val(response[r])[i][2] = Val(request_id_header[r])

----------------------------------------------------------------------------
(* C6 *)

ReconciledFromOwnInbound(r, v) ==
    \E g \in GenerateRequestId :
        v = ComputeRequestIdHeader(inbound[r], prefix, g)

\* C6: the reconciled value is in environ before the application runs
\* (replacing the inbound value or creating the entry), it is computed once
\* per request, and it is the value the middleware puts in the response's
\* X-Request-ID header.
C6_EnvironHoldsReconciled ==
    \A r \in Requests :
        /\ computeCount[r] = IF pc[r] \in {"idle", "received"} THEN 0 ELSE 1
        /\ pc[r] \in {"stored", "app", "returned", "raised"} =>
            /\ environ[r] # None
            /\ environ[r] = request_id_header[r]
            /\ ReconciledFromOwnInbound(r, Val(environ[r]))
        /\ serverCall[r] # None =>
            LET h == Val(serverCall[r]).headers
            IN  h[Len(h)] = <<"X-Request-ID", Val(environ[r])>>
        /\ pc[r] = "returned" =>
            LET h == Val(response[r])
            IN  h[Len(h)] = <<"X-Request-ID", Val(environ[r])>>

\* the entry is created for a request that came without the header, and the
\* response was sent
C6_Witness ==
    /\ inbound[1] = None
    /\ pc[1] = "returned"
    /\ environ[1] # None

----------------------------------------------------------------------------
(* C7 *)

\* C7: with the prefix absent or empty no token is unique by prefix
\* containment, and a header whose tokens are all non-UUID gets a generated
\* token appended.
C7_EmptyPrefixDisablesRuleA ==
    \A r \in Requests :
        (Computed(r) /\ inbound[r] # None /\ prefix \in {None, Some(<<>>)}) =>
            LET tokens == Split(Val(inbound[r]))
            IN  /\ \A i \in 1..Len(tokens) : ~PrefixMatches(tokens[i], prefix)
                /\ (\A i \in 1..Len(tokens) : ~UUIDConstructs(tokens[i])) =>
                       IsAugmented(Val(inbound[r]), Val(request_id_header[r]))

----------------------------------------------------------------------------
(* C8 *)

\* C8: a token without the configured prefix is classified unique exactly
\* when it is a version-4 UUID in canonical textual form, and a header made
\* only of tokens that are neither gets a generated token appended.
C8_UniqueIffCanonicalUUID4 ==
    \A r \in Requests :
        (Computed(r) /\ inbound[r] # None) =>
            LET tokens == Split(Val(inbound[r]))
            IN  /\ \A i \in 1..Len(tokens) :
                       ~ContainsConfiguredPrefix(tokens[i]) =>
                           (RequestIdUnique(tokens[i], prefix)
                                <=> IsCanonicalUUID4(tokens[i]))
                /\ (\A i \in 1..Len(tokens) :
                        /\ ~ContainsConfiguredPrefix(tokens[i])
                        /\ ~IsCanonicalUUID4(tokens[i])) =>
                       IsAugmented(Val(inbound[r]), Val(request_id_header[r]))

----------------------------------------------------------------------------
(* C9 *)

\* no token of the first input is trusted by prefix, none is a UUID
C9_Premise ==
    /\ original # None
    /\ LET tokens == Split(Val(original))
       IN  \A i \in 1..Len(tokens) :
               /\ ~PrefixMatches(tokens[i], prefix)
               /\ ~UUIDConstructs(tokens[i])

\* C9: without prefix trust and with only non-UUID tokens in the inbound
\* header, each application of _compute_request_id_header to its previous
\* output appends another generated token.
C9_EachReapplicationAppends ==
    C9_Premise =>
        Len(Split(Val(value))) = Len(Split(Val(original))) + applied

\* C9 amended: under the same premise the first application appends one
\* generated token, and every application to the previous output returns
\* that output unchanged.
C9_OnlyFirstApplicationAppends ==
    [][C9_Premise =>
          IF applied = 0
          THEN IsAugmented(Val(original), Val(value'))
          ELSE value' = value]_vars

C9_Witness ==
    /\ C9_Premise
    /\ prefix = None
    /\ applied >= 2
    /\ Len(Split(Val(value))) = Len(Split(Val(original))) + 1

----------------------------------------------------------------------------
(* C10 *)

C10_OwnValues ==
    \A r \in Requests :
        /\ Computed(r) =>
               ReconciledFromOwnInbound(r, Val(request_id_header[r]))
        /\ pc[r] \in {"stored", "app", "returned", "raised"} =>
               environ[r] = request_id_header[r]
        /\ serverCall[r] # None =>
               LET h == Val(serverCall[r]).headers
               IN  h[Len(h)] = <<"X-Request-ID", Val(request_id_header[r])>>
        /\ pc[r] = "returned" =>
               LET h == Val(response[r])
               IN  h[Len(h)] = <<"X-Request-ID", Val(request_id_header[r])>>

\* C10: however the requests of one RequestID instance interleave, each
\* request's environ value and response header is the value reconciled from
\* its own inbound header, and the prefix and the header name keep the
\* values they got at start-up.
C10_RequestsIsolated ==
    /\ Cardinality(ConcurrentPrefixes) = 1
    /\ prefix \in ConcurrentPrefixes
    /\ header_name = "X-Request-ID"
    /\ C10_OwnValues

\* two requests inside the application at once, each with a start_response
\* call made, holding different values
C10_Witness ==
    \E r1, r2 \in Requests :
        /\ r1 # r2
        /\ pc[r1] = "app" /\ pc[r2] = "app"
        /\ serverCall[r1] # None /\ serverCall[r2] # None
        /\ request_id_header[r1] # request_id_header[r2]

====
